---- MODULE Spec2Model ----
(***************************************************************************)
(* Model of file-utils.js (src/index.js): FileHandler, WorkingStack, Order. *)
(*                                                                         *)
(* The JavaScript event loop is modelled at the granularity the code can   *)
(* observe: a public method call runs synchronously to its end; promise    *)
(* reactions (.then callbacks, await continuations) are a FIFO microtask   *)
(* queue that drains before any timer or filesystem callback runs; timers  *)
(* of equal delay fire in the order they were set; filesystem operations   *)
(* complete in any order.                                                  *)
(***************************************************************************)
EXTENDS Integers, Sequences, FiniteSets, TLC

\* ---------------------------------------------------------------- bounds
MaxOrders  == 2      \* public method calls made by the callers
MaxCeiling == 2      \* largest maxSyncWrites passed to the constructor

Paths == {"p", "q"}
Data  == {"a", "b"}
Kinds == {"read", "write", "delete", "create", "append"}

\* File contents are sequences of Data tokens; a missing file is NoFile.
NoFile         == <<"ENOENT">>
Undefined      == <<"undefined">>
ReferenceError == <<"ReferenceError">>

VARIABLES
    maxListeners,   \* emitter.getMaxListeners(), set by the constructor
    timeoutArg,     \* the constructor's timeout argument
    timeout,        \* FileHandler.timeout, the delay every setTimeout is given
    lock,           \* FileHandler.lock : Set of paths
    stack,          \* FileHandler.orderStack.stack : array of Orders
    readListeners,  \* listeners registered with emitter.on('read', ...)
    timers,         \* pending setTimeout callbacks, in firing order
    microtasks,     \* pending promise reactions, in run order
    inflight,       \* Orders handed to fs.* whose callback has not run
    files,          \* the filesystem: path -> content or NoFile
    files0,         \* the filesystem as it was when the handler was made
    calls,          \* the callers' promises, one per public method call
    quiet,          \* nothing has run since the last public method call
    done,           \* Orders whose fs callback has run, with the outcome
    nextId,         \* stands for the random id of the next Order
    crashed         \* an exception escaped a timer or fs callback

vars == <<maxListeners, timeoutArg, timeout, lock, stack, readListeners, timers, microtasks,
          inflight, files, files0, calls, quiet, done, nextId, crashed>>

\* What no operation after the constructor writes.
fixed == <<maxListeners, timeoutArg, timeout, files0>>

\* ------------------------------------------------------------ Order
NoOrder == [id |-> 0, path |-> "", type |-> "", data |-> ""]

TypeError == <<"Error: type must be read, write, delete, create or append">>

\* The type check without its throw: every type is let through.
OrderTypeValid_AcceptsAny(type) ==
    type = type

\* Order.constructor: the type check; any other type throws.
OrderTypeValid(type) ==
    type \in {"read", "write", "delete", "create", "append"}

Order(id, path, type, data) ==
    [id |-> id, path |-> path, type |-> type, data |-> data]

\* ------------------------------------------------------------ WorkingStack
InStack(stk, id) == \E i \in 1..Len(stk) : stk[i].id = id

\* Array.prototype.find / indexOf: the first entry with the id.
IndexOfId(stk, id) ==
    CHOOSE i \in 1..Len(stk) :
        /\ stk[i].id = id
        /\ \A j \in 1..(i - 1) : stk[j].id # id

RemoveAt(stk, i) == SubSeq(stk, 1, i - 1) \o SubSeq(stk, i + 1, Len(stk))

\* getOrderById without the splice: the Order is returned and left in place.
getOrderById_NoSplice(stk, id) ==
    IF InStack(stk, id)
    THEN [order |-> stk[IndexOfId(stk, id)], stack |-> stk]
    ELSE [order |-> NoOrder, stack |-> stk]

\* WorkingStack.getOrderById: returns the Order and removes it (splice).
getOrderById(stk, id) ==
    IF InStack(stk, id)
    THEN [order |-> stk[IndexOfId(stk, id)],
          stack |-> RemoveAt(stk, IndexOfId(stk, id))]
    ELSE [order |-> NoOrder, stack |-> stk]

\* WorkingStack.peekOrderById: returns the Order and leaves the stack alone.
peekOrderById(stk, id) ==
    IF InStack(stk, id) THEN stk[IndexOfId(stk, id)] ELSE NoOrder

push(stk, item) == Append(stk, item)

\* ------------------------------------------------------------ event loop
Timer(type, order, path, call) ==
    [type |-> type, order |-> order, path |-> path, call |-> call]

LockRetry(order)      == Timer("lockRetry", order, order.path, 0)
ReadRetry(path, call) == Timer("readRetry", NoOrder, path, call)
BrokenRetry(path)     == Timer("brokenRetry", NoOrder, path, 0)

Micro(type, path, call, status, result) ==
    [type |-> type, path |-> path, call |-> call,
     status |-> status, result |-> result]

Unlock(path)                 == Micro("unlock", path, 0, "", <<>>)
Settle(call, status, result) == Micro("settle", "", call, status, result)

\* EventEmitter.listenerCount: only 'read' listeners are ever registered;
\* listenerCount() without an event name counts the listeners of undefined.
listenerCount(event) ==
    IF event = "read" THEN Cardinality(readListeners) ELSE 0

\* ------------------------------------------------------------ scheduler
\* The part of the state one synchronous run of executeOrder reads and writes.
Sched ==
    [stack |-> stack, lock |-> lock, timers |-> timers,
     inflight |-> inflight, microtasks |-> microtasks]

Commit(s) ==
    /\ stack' = s.stack
    /\ lock' = s.lock
    /\ timers' = s.timers
    /\ inflight' = s.inflight
    /\ microtasks' = s.microtasks

\* executeOrder with the lock test widened from the Order's own path to any
\* locked path.
executeOrder_AnyPathBlocks(s, id) ==
    IF ~InStack(s.stack, id)
    THEN s
    ELSE LET got   == getOrderById(s.stack, id)
             order == got.order
         IN  IF s.lock # {}
             THEN [s EXCEPT !.stack  = got.stack,
                            !.timers = Append(@, LockRetry(order))]
             ELSE [s EXCEPT !.stack      = got.stack,
                            !.lock       = @ \cup {order.path},
                            !.inflight   = @ \cup {order},
                            !.microtasks = Append(@, Unlock(order.path))]

\* executeOrder looking the Order up without taking it out of the stack when
\* the path is locked.
executeOrder_KeepsQueued(s, id) ==
    IF ~InStack(s.stack, id)
    THEN s
    ELSE LET got   == getOrderById(s.stack, id)
             order == peekOrderById(s.stack, id)
         IN  IF order.path \in s.lock
             THEN [s EXCEPT !.timers = Append(@, LockRetry(order))]
             ELSE [s EXCEPT !.stack      = got.stack,
                            !.lock       = @ \cup {order.path},
                            !.inflight   = @ \cup {order},
                            !.microtasks = Append(@, Unlock(order.path))]

\* executeOrder without the .then that releases the lock.
executeOrder_NoRelease(s, id) ==
    IF ~InStack(s.stack, id)
    THEN s
    ELSE LET got   == getOrderById(s.stack, id)
             order == got.order
         IN  IF order.path \in s.lock
             THEN [s EXCEPT !.stack  = got.stack,
                            !.timers = Append(@, LockRetry(order))]
             ELSE [s EXCEPT !.stack    = got.stack,
                            !.lock     = @ \cup {order.path},
                            !.inflight = @ \cup {order}]

\* FileHandler.executeOrder(id), run on scheduler state s.
\* The Order is taken out of the stack before the lock is looked at.  On a
\* free path the path is locked, the fs call is started, and the release
\* of the lock is chained with .then to the promise of the async *FilePrivate
\* function, which is already fulfilled when that function returns.
executeOrder(s, id) ==
    IF ~InStack(s.stack, id)
    THEN s
    ELSE LET got   == getOrderById(s.stack, id)
             order == got.order
         IN  IF order.path \in s.lock
             THEN [s EXCEPT !.stack  = got.stack,
                            !.timers = Append(@, LockRetry(order))]
             ELSE IF order.type \in Kinds
                  THEN [s EXCEPT !.stack      = got.stack,
                                 !.lock       = @ \cup {order.path},
                                 !.inflight   = @ \cup {order},
                                 !.microtasks = Append(@, Unlock(order.path))]
                  ELSE [s EXCEPT !.stack = got.stack,
                                 !.lock  = @ \cup {order.path}]

\* FileHandler.orderExecution(order)
orderExecution(s, order) ==
    executeOrder([s EXCEPT !.stack = push(@, order)], order.id)

\* ------------------------------------------------------------ callers
Settled == {i \in 1..Len(calls) : calls[i].status # "pending"}

\* The promise a public method hands to its caller.  order, after and sync
\* are history: the Order made for the call, the calls whose result had
\* already been delivered when this call was made, and whether the call
\* was made in the same synchronous run as the call before it.
NewCall(kind, path, data) ==
    [kind |-> kind, path |-> path, data |-> data, status |-> "pending",
     result |-> <<>>, order |-> 0, after |-> Settled,
     sync |-> (quiet /\ calls # <<>>)]

\* The executor of the Promise made by FileHandler.read(path); call is the
\* promise that is resolved in the end (0: nobody waits for it).
readBody(s, path, call, cs) ==
    IF listenerCount("read") = maxListeners
    THEN /\ Commit([s EXCEPT !.timers = Append(@, ReadRetry(path, call))])
         /\ calls' = cs
         /\ UNCHANGED <<readListeners, nextId>>
    ELSE /\ Commit(orderExecution(s, Order(nextId, path, "read", "")))
         /\ readListeners' = readListeners \cup {[id |-> nextId, call |-> call]}
         /\ calls' = IF call = 0 THEN cs ELSE [cs EXCEPT ![call].order = nextId]
         /\ nextId' = nextId + 1

\* FileHandler.read(path)
Read(path) ==
    /\ ~crashed
    /\ Len(calls) < MaxOrders
    /\ quiet' = TRUE
    /\ readBody(Sched, path, Len(calls) + 1,
                Append(calls, NewCall("read", path, "")))
    /\ UNCHANGED <<fixed, files, done, crashed>>

\* The body shared by write and append: at the ceiling a retry timer is set,
\* otherwise the Order is made and executed.  The async function returns at
\* once either way, so its promise is fulfilled with undefined.
submitWithContent(kind, event, path, content) ==
    LET call == Len(calls) + 1
        ack  == Settle(call, "resolved", Undefined)
    IN  IF listenerCount(event) = maxListeners
        THEN /\ Commit([Sched EXCEPT
                          !.timers     = Append(@, BrokenRetry(path)),
                          !.microtasks = Append(@, ack)])
             /\ calls' = Append(calls, NewCall(kind, path, content))
             /\ UNCHANGED nextId
        ELSE /\ LET s == orderExecution(Sched, Order(nextId, path, kind, content))
                IN  Commit([s EXCEPT !.microtasks = Append(@, ack)])
             /\ calls' = Append(calls,
                           [NewCall(kind, path, content) EXCEPT !.order = nextId])
             /\ nextId' = nextId + 1

\* The body shared by create and delete: below the ceiling the Order is made
\* from the name content, which neither function declares, so the function
\* throws a ReferenceError and its promise is rejected.  given is what the
\* caller passed as content (history only).
submitNoContent(kind, path, given) ==
    LET call == Len(calls) + 1
    IN  /\ IF listenerCount(kind) = maxListeners
           THEN Commit([Sched EXCEPT
                          !.timers     = Append(@, BrokenRetry(path)),
                          !.microtasks = Append(@, Settle(call, "resolved", Undefined))])
           ELSE Commit([Sched EXCEPT
                          !.microtasks = Append(@, Settle(call, "rejected", ReferenceError))])
        /\ calls' = Append(calls, NewCall(kind, path, given))
        /\ UNCHANGED nextId

\* FileHandler.write(path, content)
Write(path, content) ==
    /\ ~crashed
    /\ Len(calls) < MaxOrders
    /\ quiet' = TRUE
    /\ submitWithContent("write", "write", path, content)
    /\ UNCHANGED <<fixed, readListeners, files, done, crashed>>

\* FileHandler.append(path, content): the ceiling test calls listenerCount()
\* without an event name.
Append_(path, content) ==
    /\ ~crashed
    /\ Len(calls) < MaxOrders
    /\ quiet' = TRUE
    /\ submitWithContent("append", "undefined", path, content)
    /\ UNCHANGED <<fixed, readListeners, files, done, crashed>>

\* FileHandler.create(path), called as create(path, content): the function
\* has the one parameter path, a second argument is bound to nothing.
Create(path, content) ==
    /\ ~crashed
    /\ Len(calls) < MaxOrders
    /\ quiet' = TRUE
    /\ submitNoContent("create", path, content)
    /\ UNCHANGED <<fixed, readListeners, files, done, crashed>>

\* FileHandler.delete(path)
Delete(path) ==
    /\ ~crashed
    /\ Len(calls) < MaxOrders
    /\ quiet' = TRUE
    /\ submitNoContent("delete", path, "")
    /\ UNCHANGED <<fixed, readListeners, files, done, crashed>>

\* new Order(path, type, data) followed by this.orderExecution(order), the
\* two statements every public method ends with, for any type value: when
\* the constructor throws, the async function's promise is rejected and
\* orderExecution is not reached.
ConstructAndExecute(path, type, data) ==
    /\ ~crashed
    /\ Len(calls) < MaxOrders
    /\ quiet' = TRUE
    /\ LET call == Len(calls) + 1
       IN  IF OrderTypeValid(type)
           THEN /\ LET s == orderExecution(Sched, Order(nextId, path, type, data))
                   IN  Commit([s EXCEPT !.microtasks =
                                 Append(@, Settle(call, "resolved", Undefined))])
                /\ calls' = Append(calls,
                              [NewCall(type, path, data) EXCEPT !.order = nextId])
                /\ nextId' = nextId + 1
           ELSE /\ Commit([Sched EXCEPT !.microtasks =
                             Append(@, Settle(call, "rejected", TypeError))])
                /\ calls' = Append(calls, NewCall(type, path, data))
                /\ UNCHANGED nextId
    /\ UNCHANGED <<fixed, readListeners, files, done, crashed>>

\* ------------------------------------------------------------ timers
\* A timer or fs callback starts only when the microtask queue is empty.
LoopIdle == ~crashed /\ microtasks = <<>>

\* The setTimeout callback of executeOrder: push the Order back, try again.
LockRetryFires ==
    /\ LoopIdle
    /\ quiet' = FALSE
    /\ timers # <<>>
    /\ Head(timers).type = "lockRetry"
    /\ LET order == Head(timers).order
           s     == [Sched EXCEPT !.timers = Tail(@)]
       IN  Commit(executeOrder([s EXCEPT !.stack = push(@, order)], order.id))
    /\ UNCHANGED <<fixed, readListeners, files, calls, done, nextId,
                   crashed>>

\* The setTimeout callback of read: read(path) again, its result is passed
\* on to the promise of the first call.
ReadRetryFires ==
    /\ LoopIdle
    /\ quiet' = FALSE
    /\ timers # <<>>
    /\ Head(timers).type = "readRetry"
    /\ readBody([Sched EXCEPT !.timers = Tail(@)],
                Head(timers).path, Head(timers).call, calls)
    /\ UNCHANGED <<fixed, files, done, crashed>>

\* The setTimeout callback of write, create, delete and append:
\* this.read(path) is called, then evaluating the names resolve and reject,
\* which are not declared there, throws out of the callback.
BrokenRetryFires ==
    /\ LoopIdle
    /\ quiet' = FALSE
    /\ timers # <<>>
    /\ Head(timers).type = "brokenRetry"
    /\ readBody([Sched EXCEPT !.timers = Tail(@)], Head(timers).path, 0, calls)
    /\ crashed' = TRUE
    /\ UNCHANGED <<fixed, files, done>>

\* ------------------------------------------------------------ microtasks
\* The next promise reaction: the lock release chained in executeOrder, or a
\* caller receiving the result of its call.
RunMicrotask ==
    /\ ~crashed
    /\ quiet' = FALSE
    /\ microtasks # <<>>
    /\ LET m == Head(microtasks)
       IN  /\ lock' = IF m.type = "unlock" THEN lock \ {m.path} ELSE lock
           /\ calls' = IF m.type = "settle" /\ m.call # 0
                          /\ calls[m.call].status = "pending"
                       THEN [calls EXCEPT ![m.call].status = m.status,
                                          ![m.call].result = m.result]
                       ELSE calls
    /\ microtasks' = Tail(microtasks)
    /\ UNCHANGED <<fixed, stack, readListeners, timers, inflight, files,
                   done, nextId, crashed>>

\* ------------------------------------------------------------ filesystem
Exists(path) == files[path] # NoFile

\* What fs.readFile / writeFile / unlink / appendFile do to the file.
FsEffect(o) ==
    CASE o.type = "read"   -> files
      [] o.type = "write"  -> [files EXCEPT ![o.path] = <<o.data>>]
      [] o.type = "create" -> [files EXCEPT ![o.path] = <<o.data>>]
      [] o.type = "delete" -> [files EXCEPT ![o.path] = NoFile]
      [] o.type = "append" ->
            [files EXCEPT ![o.path] =
                (IF Exists(o.path) THEN @ ELSE <<>>) \o <<o.data>>]

\* emit with listeners that leave out the test of the Order id: every 'read'
\* listener resolves its promise with the content.
RECURSIVE SettleAll(_, _)
SettleAll(ls, content) ==
    IF ls = {} THEN <<>>
    ELSE LET l == CHOOSE x \in ls : TRUE
         IN  <<Settle(l.call, "resolved", content)>> \o SettleAll(ls \ {l}, content)

Emit_NoIdTest(o, content) ==
    IF o.type = "read"
    THEN SettleAll({l \in readListeners : l.call # 0}, content)
    ELSE <<>>

\* emitter.emit(o.type, {order, content}): every 'read' listener runs, and
\* the one whose Order id matches resolves its promise with the content.
Emit(o, content) ==
    IF o.type = "read"
    THEN LET hit == {l \in readListeners : l.id = o.id /\ l.call # 0}
         IN  IF hit = {} THEN <<>>
             ELSE <<Settle((CHOOSE l \in hit : TRUE).call, "resolved", content)>>
    ELSE <<>>

\* The callback of the fs call of Order o runs with err == null.
FsSucceeds(o) ==
    /\ LoopIdle
    /\ quiet' = FALSE
    /\ o \in inflight
    /\ o.type \in {"read", "delete"} => Exists(o.path)
    /\ files' = FsEffect(o)
    /\ inflight' = inflight \ {o}
    /\ microtasks' = microtasks \o Emit(o, files[o.path])
    /\ done' = done \cup {[id |-> o.id, ok |-> TRUE]}
    /\ UNCHANGED <<fixed, lock, stack, readListeners, timers, calls,
                   nextId, crashed>>

\* The callback of the fs call of Order o runs with an err (a missing file,
\* or any I/O error of the host): emitter.emit('error', err) with no
\* 'error' listener registered throws err out of the callback.
FsFails(o) ==
    /\ LoopIdle
    /\ quiet' = FALSE
    /\ o \in inflight
    /\ inflight' = inflight \ {o}
    /\ done' = done \cup {[id |-> o.id, ok |-> FALSE]}
    /\ crashed' = TRUE
    /\ UNCHANGED <<fixed, lock, stack, readListeners, timers,
                   microtasks, files, calls, nextId>>

\* ------------------------------------------------------------ specification
\* The timeout argument of the constructor: left out, or a number of ms.
NotGiven    == "not given"
TimeoutArgs == {NotGiven, "100"}

\* The parameter default of the constructor: timeout = 10.
TimeoutParam(arg) == IF arg = NotGiven THEN "10" ELSE arg

\* FileHandler.constructor(maxSyncWrites, timeout): only maxSyncWrites is
\* stored (as the emitter's listener limit); the field timeout is declared
\* without a value and the constructor does not assign it.
InitAnyTimeout ==
    /\ maxListeners \in 0..MaxCeiling
    /\ timeoutArg \in TimeoutArgs
    /\ timeout = "undefined"
    /\ lock = {}
    /\ stack = <<>>
    /\ readListeners = {}
    /\ timers = <<>>
    /\ microtasks = <<>>
    /\ inflight = {}
    /\ files \in [Paths -> {NoFile, <<>>}]
    /\ files0 = files
    /\ calls = <<>>
    /\ quiet = TRUE
    /\ done = {}
    /\ nextId = 1
    /\ crashed = FALSE

\* new FileHandler(maxSyncWrites)
Init == InitAnyTimeout /\ timeoutArg = NotGiven

Next ==
    \/ \E path \in Paths : Read(path)
    \/ \E path \in Paths, content \in Data : Write(path, content)
    \/ \E path \in Paths, content \in Data : Append_(path, content)
    \/ \E path \in Paths, content \in Data : Create(path, content)
    \/ \E path \in Paths : Delete(path)
    \/ LockRetryFires
    \/ ReadRetryFires
    \/ BrokenRetryFires
    \/ RunMicrotask
    \/ \E o \in inflight : FsSucceeds(o)
    \/ \E o \in inflight : FsFails(o)

Spec == Init /\ [][Next]_vars

\* Node runs every due timer, every queued promise reaction and the
\* callback of every started fs call.
TimerFires == LockRetryFires \/ ReadRetryFires \/ BrokenRetryFires
FsCallback == \E o \in inflight : FsSucceeds(o) \/ FsFails(o)

FairSpec ==
    /\ Spec
    /\ WF_vars(RunMicrotask)
    /\ WF_vars(TimerFires)
    /\ WF_vars(FsCallback)

\* The Order constructor under every type value: the public methods' last two
\* statements with the type as an input.
TypeInputs == Kinds \cup {"copy", ""}

NextOrder ==
    \/ \E path \in Paths, type \in TypeInputs, data \in {"a"} :
            ConstructAndExecute(path, type, data)
    \/ LockRetryFires
    \/ RunMicrotask
    \/ \E o \in inflight : FsSucceeds(o)
    \/ \E o \in inflight : FsFails(o)

\* The listener limit plays no part here: no ceiling test is made.
InitOrder == Init /\ maxListeners = MaxCeiling

OrderSpec == InitOrder /\ [][NextOrder]_vars

\* new FileHandler(maxSyncWrites) and new FileHandler(maxSyncWrites, timeout)
ConfigSpec == InitAnyTimeout /\ [][Next]_vars

TypeOK ==
    /\ maxListeners \in 0..MaxCeiling
    /\ lock \subseteq Paths
    /\ Len(calls) <= MaxOrders
    /\ nextId \in 1..(MaxOrders + 2)
    /\ crashed \in BOOLEAN

\* ------------------------------------------------------------ properties
OrderIds == 1..(MaxOrders + 2)

InFlightId(id)  == \E o \in inflight : o.id = id
CompletedId(id) == \E d \in done : d.id = id
SucceededId(id) == [id |-> id, ok |-> TRUE] \in done
FailedId(id)    == [id |-> id, ok |-> FALSE] \in done

\* The c-th call, or a call nobody made.
NoCall ==
    [kind |-> "", path |-> "", data |-> "", status |-> "none",
     result |-> <<>>, order |-> 0, after |-> {}, sync |-> FALSE]

CallAt(c) == IF c \in 1..Len(calls) THEN calls[c] ELSE NoCall

\* Orders waiting for a lock retry.
Waiting == {timers[i].order : i \in {j \in 1..Len(timers) : timers[j].type = "lockRetry"}}

\* C1: for every path, at no instant are two Orders against it both between
\* the start of their fs call and that call's completion callback.
C1_OneDispatchPerPath ==
    \A o1, o2 \in inflight : o1.path = o2.path => o1 = o2

\* C2: a path is in the lock set if and only if some Order against it has
\* begun its fs call and the completion callback has not run yet.
C2_LockedIffInFlight ==
    \A path \in Paths : path \in lock <=> \E o \in inflight : o.path = path

\* C3: with maxConcurrent >= 1 and fs calls succeeding, every caller of read
\* eventually receives its result, also the reads beyond the ceiling.
C3_EveryReadResolves ==
    \A c \in 1..MaxOrders :
        (CallAt(c).kind = "read" /\ maxListeners >= 1)
            ~> (CallAt(c).status = "resolved" \/ crashed)

\* C4: for every kind, the Orders of that kind admitted (enqueued, waiting
\* for the lock or dispatched) and not completed are at most maxConcurrent.
AdmittedOfKind(kind) ==
    {o \in inflight \cup Waiting \cup {stack[i] : i \in 1..Len(stack)} :
        o.type = kind}

C4_PerKindCeiling ==
    \A kind \in Kinds : Cardinality(AdmittedOfKind(kind)) <= maxListeners

\* C5: a read(p) called after the caller received the result of write(p, c),
\* with no other operation on p, returns exactly c.
C5_ReadAfterWrite ==
    \A w, r \in 1..Len(calls) :
        ( /\ calls[w].kind = "write"
          /\ calls[r].kind = "read"
          /\ calls[r].path = calls[w].path
          /\ w \in calls[r].after
          /\ \A k \in 1..Len(calls) :
                calls[k].path = calls[w].path => k \in {w, r}
          /\ calls[r].status = "resolved" )
        => calls[r].result = <<calls[w].data>>

\* C6: append(p, a) immediately followed by append(p, b) on an initially
\* empty file: the fs append of b does not start before the fs append of a
\* has completed, and once both have completed the content is a then b.
C6_AppendsInOrder ==
    ( /\ Len(calls) >= 2
      /\ calls[1].kind = "append"
      /\ calls[2].kind = "append"
      /\ calls[1].path = calls[2].path
      /\ calls[2].sync
      /\ files0[calls[1].path] = <<>>
      /\ \A k \in 3..Len(calls) : calls[k].path # calls[1].path )
    => /\ (InFlightId(calls[2].order) \/ CompletedId(calls[2].order))
            => CompletedId(calls[1].order)
       /\ (SucceededId(calls[1].order) /\ SucceededId(calls[2].order))
            => files[calls[1].path] = <<calls[1].data, calls[2].data>>

\* C7: when the fs call of an Order fails, the caller that issued the Order
\* eventually receives an error result.
C7_FailureReachesCaller ==
    \A c \in 1..MaxOrders :
        (CallAt(c).order # 0 /\ FailedId(CallAt(c).order))
            ~> (CallAt(c).status = "rejected")

\* C8: after the fs failure of one Order, every other Order whose fs call is
\* under way still reaches its own completion or failure.
C8_OthersStillComplete ==
    \A id \in OrderIds :
        (InFlightId(id) /\ \E d \in done : ~d.ok /\ d.id # id)
            ~> CompletedId(id)

\* C9: create(p, c) admits and enqueues an Order of kind create carrying c,
\* and a read(p) issued right after it returns exactly c.
C9_CreateThenRead ==
    \A c \in 1..Len(calls) :
        (calls[c].kind = "create" /\ maxListeners >= 1)
        => /\ calls[c].order # 0
           /\ calls[c].status # "rejected"
           /\ \A r \in 1..Len(calls) :
                ( /\ r = c + 1
                  /\ calls[r].kind = "read"
                  /\ calls[r].path = calls[c].path
                  /\ calls[r].status = "resolved" )
                => calls[r].result = <<calls[c].data>>

\* C10: an Order is sent to lock retry only when its own path is in the lock
\* set; an Order whose path is free when executeOrder runs for it is
\* dispatched in that same run, whatever other paths are locked.
TriedInStep(o) ==
    \/ nextId' # nextId /\ o.id = nextId
    \/ LockRetryFires /\ o = Head(timers).order

C10_OnlyOwnPathBlocks ==
    [][ \A o \in (inflight \cup Waiting \cup {stack[i] : i \in 1..Len(stack)})' :
            TriedInStep(o) =>
                IF o.path \in lock
                THEN /\ o \notin inflight'
                     /\ timers' # <<>>
                     /\ timers'[Len(timers')] = LockRetry(o)
                ELSE o \in inflight' ]_vars

\* Two Orders against different paths are under way at once and no Order
\* waits for a lock retry.
C10_Witness ==
    /\ \E o1, o2 \in inflight : o1.path # o2.path
    /\ Waiting = {}
    /\ Cardinality(lock) = 2

\* C11: constructing an Order succeeds for the five kinds and fails for any
\* other type; a construction that failed pushes nothing to the registry,
\* takes no lock and starts no fs call.
Registered == inflight \cup Waiting \cup {stack[i] : i \in 1..Len(stack)}

C11_InvalidKindNeverQueued ==
    /\ \A c \in 1..Len(calls) :
        IF calls[c].kind \in {"read", "write", "delete", "create", "append"}
        THEN calls[c].order # 0
        ELSE /\ calls[c].order = 0
             /\ \A i \in 1..Len(microtasks) :
                    microtasks[i].call = c => microtasks[i].status = "rejected"
             /\ calls[c].status \in {"pending", "rejected"}
    /\ \A o \in Registered :
            o.type \in {"read", "write", "delete", "create", "append"}
    /\ \A path \in lock : \E o \in inflight : o.path = path

\* A construction with an invalid type was rejected next to one that went
\* through.
C11_Witness ==
    \E c1, c2 \in 1..Len(calls) :
        /\ calls[c1].kind \notin Kinds
        /\ calls[c1].status = "rejected"
        /\ calls[c2].kind \in Kinds
        /\ calls[c2].order # 0

\* C12: with several reads outstanding, each caller is resolved at most once
\* and only with the content carried by the completion event of its own
\* Order, whatever the order in which the completions arrive.
ReadSettles(c) ==
    {i \in 1..Len(microtasks) :
        microtasks[i].type = "settle" /\ microtasks[i].call = c}

C13_AckAfterCompletion ==
    \A c \in 1..Len(calls) :
        ( /\ maxListeners >= 1
          /\ calls[c].kind \in {"write", "append", "create", "delete"}
          /\ calls[c].status = "resolved" )
        => /\ calls[c].order # 0
           /\ CompletedId(calls[c].order)

\* C14: the delay every admission retry and lock retry reads is the
\* retryDelay the scheduler was constructed with, or 10 when none was given.
C14_RetryDelayConfigured ==
    timers # <<>> => timeout = TimeoutParam(timeoutArg)

\* C15: the number of registered 'read' subscriptions equals the number of
\* read calls admitted and not yet notified, so it is 0 again when no read
\* is outstanding.
ReadsOutstanding ==
    {c \in 1..Len(calls) :
        /\ calls[c].kind = "read"
        /\ calls[c].order # 0
        /\ ~SucceededId(calls[c].order)}

C15_SubscriptionsConsumed ==
    Cardinality(readListeners) = Cardinality(ReadsOutstanding)

TimersHolding(o) ==
    {i \in 1..Len(timers) :
        timers[i].type = "lockRetry" /\ timers[i].order = o}

C17_RegistryEntriesUnique ==
    /\ \A i, j \in 1..Len(stack) : stack[i].id = stack[j].id => i = j
    /\ \A o \in inflight : ~InStack(stack, o.id)
    /\ \A d \in done : ~InStack(stack, d.id)

\* The second of two Orders on one path, submitted in the same synchronous
\* run, has been through a lock retry and is dispatched.
C17_Witness ==
    /\ Len(calls) >= 2
    /\ calls[2].sync
    /\ calls[1].path = calls[2].path
    /\ calls[1].order # 0
    /\ calls[2].order # 0
    /\ InFlightId(calls[2].order) \/ CompletedId(calls[2].order)

\* C18: for every kind, a submission that finds its kind at the ceiling
\* enqueues nothing and schedules a retry of the same submission (same kind,
\* path and caller), and the caller's result stays open until that
\* operation has been admitted and completed.
\* What a retry callback calls when it fires: this.read(path), in every method.
ReissuedKind(t) ==
    IF t.type \in {"readRetry", "brokenRetry"} THEN "read" ELSE ""

\* Call c found its kind at the ceiling and has not been admitted since
\* (for the kinds other than read the ceiling test is 0 = maxListeners).
AtCeiling(c) ==
    /\ calls[c].order = 0
    /\ calls[c].kind = "read" \/ maxListeners = 0

C18_RetrySameSubmission ==
    \A c \in 1..Len(calls) :
        AtCeiling(c) =>
            /\ calls[c].status = "pending"
            /\ \A i \in 1..Len(microtasks) : microtasks[i].call # c
            /\ \E i \in 1..Len(timers) :
                /\ timers[i].call = c
                /\ timers[i].path = calls[c].path
                /\ ReissuedKind(timers[i]) = calls[c].kind

\* C19: an Order is dispatched to the filesystem at most once, exactly one
\* completion or error event is published for it, once completed or failed
\* it is never pending or executing again, and (timers, promise reactions
\* and fs callbacks being fair, submissions finite) every queued Order
\* eventually reaches completed or failed.
C19_DispatchedOnce ==
    /\ [](\A d1, d2 \in done : d1.id = d2.id => d1 = d2)
    /\ [](\A d \in done :
            /\ ~InFlightId(d.id)
            /\ ~InStack(stack, d.id)
            /\ \A o \in Waiting : o.id # d.id)
    /\ [][\A o \in inflight' \ inflight :
            /\ ~CompletedId(o.id)
            /\ ~InFlightId(o.id)]_vars

C19_OrderLifecycle ==
    /\ C19_DispatchedOnce
    /\ \A id \in OrderIds :
            (\E o \in Waiting : o.id = id) ~> CompletedId(id)

\* C20: no path stays locked: for every path in the lock set the release is
\* already queued behind the dispatch that locked it, whatever the outcome
\* of the fs call, so whenever no Order is executing and no retry timer is
\* outstanding the lock set and the pending registry are both empty.
C20_LocksReleased ==
    /\ \A path \in lock :
        /\ ~crashed
        /\ \E i \in 1..Len(microtasks) : microtasks[i] = Unlock(path)
    /\ (inflight = {} /\ timers = <<>>) => (lock = {} /\ stack = <<>>)

\* An fs call has failed, nothing is executing or waiting, and no path is
\* locked.
C20_Witness ==
    /\ \E d \in done : ~d.ok
    /\ \E d \in done : d.ok
    /\ inflight = {}
    /\ timers = <<>>
    /\ lock = {}

====
